---- MODULE Spec2Model ----
(***************************************************************************)
(* Model of src/handler.js: the SES -> SNS -> Lambda -> CloudWatch Logs    *)
(* event logger.  One invocation of sesEventsHandler is a sequential       *)
(* process whose every store operation (CreateLogGroup, CreateLogStream,   *)
(* DescribeLogStreams, PutLogEvents) is one step; the CloudWatch Logs      *)
(* store is the environment and answers each operation with any outcome    *)
(* its interface allows in the store's current state.                      *)
(***************************************************************************)
EXTENDS Integers, Sequences, FiniteSets, TLC

(***************************************************************************)
(* Bounds                                                                  *)
(***************************************************************************)
\* longest batch (event.Records) an invocation is given
MaxRecords == 2

(***************************************************************************)
(* JavaScript values                                                       *)
(***************************************************************************)
Undefined == [t |-> "undefined"]
Null == [t |-> "null"]
Str(s) == [t |-> "string", s |-> s]
Num(n) == [t |-> "number", n |-> n]
Arr(e) == [t |-> "array", e |-> e]
Obj(f) == [t |-> "object", f |-> f]
EmptyObj == Obj(<<>>)

\* ToBoolean: undefined, null, "" and 0 are falsy, everything else truthy
Truthy(v) ==
  /\ v # Undefined
  /\ v # Null
  /\ v # Str("")
  /\ v # Num(0)

\* a || b
Or(a, b) == IF Truthy(a) THEN a ELSE b

\* v.name for a v that is neither null nor undefined
Get(v, name) ==
  IF v.t = "object" /\ name \in DOMAIN v.f THEN v.f[name] ELSE Undefined

\* v?.name
OptGet(v, name) ==
  IF v = Undefined \/ v = Null THEN Undefined ELSE Get(v, name)

\* v?.[0]
OptFirst(v) ==
  IF v = Undefined \/ v = Null THEN Undefined
  ELSE IF v.t = "array" /\ Len(v.e) > 0 THEN v.e[1]
  ELSE Undefined

\* obj.name = value (assignment to a property of an object)
SetField(v, name, value) ==
  Obj([k \in (DOMAIN v.f) \cup {name} |-> IF k = name THEN value ELSE v.f[k]])

(***************************************************************************)
(* Inbound records: the texts carried in record.Sns.Message and what       *)
(* JSON.parse makes of each of them                                        *)
(***************************************************************************)
TxtGarbage == "not json {"
TxtNull == "null"
TxtNumber == "42"
TxtEmptyObj == "{}"
TxtBounce ==
  "{\"eventType\":\"Bounce\",\"mail\":{\"messageId\":\"m-1\",\"destination\":[\"rcpt@example.com\"]},\"bounce\":{\"bounceType\":\"Permanent\"}}"
TxtLegacyComplaint == "{\"notificationType\":\"Complaint\"}"

MessageTexts ==
  {TxtGarbage, TxtNull, TxtNumber, TxtEmptyObj, TxtBounce, TxtLegacyComplaint}

\* JSON.parse(text): [ok |-> TRUE, value |-> v], or ok = FALSE for a SyntaxError
JSONParse(text) ==
  CASE text = TxtNull -> [ok |-> TRUE, value |-> Null]
    [] text = TxtNumber -> [ok |-> TRUE, value |-> Num(42)]
    [] text = TxtEmptyObj -> [ok |-> TRUE, value |-> EmptyObj]
    [] text = TxtBounce ->
         [ok |-> TRUE,
          value |-> Obj(("eventType" :> Str("Bounce"))
                     @@ ("mail" :> Obj(("messageId" :> Str("m-1"))
                                    @@ ("destination" :> Arr(<<Str("rcpt@example.com")>>))))
                     @@ ("bounce" :> Obj("bounceType" :> Str("Permanent"))))]
    [] text = TxtLegacyComplaint ->
         [ok |-> TRUE, value |-> Obj("notificationType" :> Str("Complaint"))]
    [] OTHER -> [ok |-> FALSE, value |-> Undefined]

SNS == "aws:sns"
EventSources == {SNS, "aws:sqs"}

\* the records a batch is made of; a record of another source is never decoded
RecordSet ==
  [EventSource : {SNS}, Message : MessageTexts]
    \cup [EventSource : EventSources \ {SNS}, Message : {TxtBounce}]

RECURSIVE SeqsUpTo(_, _)
SeqsUpTo(S, n) ==
  IF n = 0 THEN {<<>>}
  ELSE LET shorter == SeqsUpTo(S, n - 1)
       IN shorter \cup {Append(q, r) : q \in {p \in shorter : Len(p) = n - 1}, r \in S}

Batches == SeqsUpTo(RecordSet, MaxRecords)

(***************************************************************************)
(* processSESEvent                                                         *)
(***************************************************************************)
\* new Date().toISOString(): the one creation time of the model
NowISO == Str("2023-01-01T12:00:00.000Z")

\* mutant: the subject is copied as it is, without a default
BaseEvent_NoSubjectDefault(snsMessage) ==
  ("timestamp" :> NowISO)
    @@ ("messageId" :> Or(OptGet(Get(snsMessage, "mail"), "messageId"), Str("unknown")))
    @@ ("eventType" :> Or(Get(snsMessage, "eventType"), Str("unknown")))
    @@ ("recipient" :>
          Or(OptFirst(OptGet(Get(snsMessage, "mail"), "destination")), Str("unknown")))
    @@ ("source" :> Or(OptGet(Get(snsMessage, "mail"), "source"), Str("unknown")))
    @@ ("subject" :> OptGet(OptGet(Get(snsMessage, "mail"), "commonHeaders"), "subject"))
    @@ ("rawEvent" :> snsMessage)

\* the processedEvent literal of processSESEvent
BaseEvent(snsMessage) ==
  ("timestamp" :> NowISO)
    @@ ("messageId" :> Or(OptGet(Get(snsMessage, "mail"), "messageId"), Str("unknown")))
    @@ ("eventType" :> Or(Get(snsMessage, "eventType"), Str("unknown")))
    @@ ("recipient" :>
          Or(OptFirst(OptGet(Get(snsMessage, "mail"), "destination")), Str("unknown")))
    @@ ("source" :> Or(OptGet(Get(snsMessage, "mail"), "source"), Str("unknown")))
    @@ ("subject" :>
          Or(OptGet(OptGet(Get(snsMessage, "mail"), "commonHeaders"), "subject"),
             Str("unknown")))
    @@ ("rawEvent" :> snsMessage)

\* mutant: the switch has the capitalized case labels only
EventDetails_CapitalizedOnly(snsMessage) ==
  LET kind == Get(snsMessage, "eventType")
      bounce == Or(Get(snsMessage, "bounce"), EmptyObj)
      complaint == Or(Get(snsMessage, "complaint"), EmptyObj)
      delivery == Or(Get(snsMessage, "delivery"), EmptyObj)
      reject == Or(Get(snsMessage, "reject"), EmptyObj)
      renderingFailure == Or(Get(snsMessage, "failure"), EmptyObj)
  IN CASE kind = Str("Bounce") ->
            ("bounceType" :> Or(Get(bounce, "bounceType"), Str("unknown")))
              @@ ("bounceSubType" :> Or(Get(bounce, "bounceSubType"), Str("unknown")))
              @@ ("bouncedRecipients" :> Or(Get(bounce, "bouncedRecipients"), Arr(<<>>)))
       [] kind = Str("Complaint") ->
            ("complaintFeedbackType" :>
                Or(Get(complaint, "complaintFeedbackType"), Str("unknown")))
              @@ ("complainedRecipients" :>
                    Or(Get(complaint, "complainedRecipients"), Arr(<<>>)))
       [] kind = Str("Delivery") ->
            ("processingTimeMillis" :> Or(Get(delivery, "processingTimeMillis"), Num(0)))
              @@ ("smtpResponse" :> Or(Get(delivery, "smtpResponse"), Str("unknown")))
       [] kind = Str("Send") -> <<>>
       [] kind = Str("Reject") ->
            ("reason" :> Or(Get(reject, "reason"), Str("unknown")))
       [] kind = Str("Rendering Failure") ->
            ("errorMessage" :> Or(Get(renderingFailure, "errorMessage"), Str("unknown")))
              @@ ("templateName" :>
                    Or(Get(renderingFailure, "templateName"), Str("unknown")))
       [] OTHER -> <<>>

\* the switch on snsMessage.eventType: the fields each case adds
EventDetails(snsMessage) ==
  LET kind == Get(snsMessage, "eventType")
      bounce == Or(Get(snsMessage, "bounce"), EmptyObj)
      complaint == Or(Get(snsMessage, "complaint"), EmptyObj)
      delivery == Or(Get(snsMessage, "delivery"), EmptyObj)
      reject == Or(Get(snsMessage, "reject"), EmptyObj)
      renderingFailure == Or(Get(snsMessage, "failure"), EmptyObj)
  IN CASE kind = Str("Bounce") \/ kind = Str("bounce") ->
            ("bounceType" :> Or(Get(bounce, "bounceType"), Str("unknown")))
              @@ ("bounceSubType" :> Or(Get(bounce, "bounceSubType"), Str("unknown")))
              @@ ("bouncedRecipients" :> Or(Get(bounce, "bouncedRecipients"), Arr(<<>>)))
       [] kind = Str("Complaint") \/ kind = Str("complaint") ->
            ("complaintFeedbackType" :>
                Or(Get(complaint, "complaintFeedbackType"), Str("unknown")))
              @@ ("complainedRecipients" :>
                    Or(Get(complaint, "complainedRecipients"), Arr(<<>>)))
       [] kind = Str("Delivery") \/ kind = Str("delivery") ->
            ("processingTimeMillis" :> Or(Get(delivery, "processingTimeMillis"), Num(0)))
              @@ ("smtpResponse" :> Or(Get(delivery, "smtpResponse"), Str("unknown")))
       [] kind = Str("Send") \/ kind = Str("send") -> <<>>
       [] kind = Str("Reject") \/ kind = Str("reject") ->
            ("reason" :> Or(Get(reject, "reason"), Str("unknown")))
       [] kind = Str("Rendering Failure") \/ kind = Str("renderingFailure") ->
            ("errorMessage" :> Or(Get(renderingFailure, "errorMessage"), Str("unknown")))
              @@ ("templateName" :>
                    Or(Get(renderingFailure, "templateName"), Str("unknown")))
       [] OTHER -> <<>>

processSESEvent(snsMessage) == Obj(EventDetails(snsMessage) @@ BaseEvent(snsMessage))

(***************************************************************************)
(* The CloudWatch Logs store, as far as cloudwatchLogs.send reaches it     *)
(***************************************************************************)
LOG_STREAM_NAME == <<"ses-email-events-stream">>

\* Every stream name of the model, in ascending name order.  A name is the
\* sequence of its parts, so that "starts with" is the prefix relation.
StreamNames ==
  << <<"other-stream">>,
     <<"ses-email-events-stream">>,
     <<"ses-email-events-stream", "-archive">> >>

StreamIds == 1..Len(StreamNames)

NoStream == [exists |-> FALSE, uploadSequenceToken |-> Undefined]
NewStream == [exists |-> TRUE, uploadSequenceToken |-> Undefined]
UsedStream(i) ==
  [exists |-> TRUE, uploadSequenceToken |-> Str("seq-" \o ToString(i))]

\* The contents the log group can have when the invocation starts: a stream
\* of another name, the configured stream (absent, never written, or
\* written) and possibly an older stream whose name starts with the
\* configured name.
StreamTables ==
  {<<UsedStream(1), configured, archive>> :
     configured \in {NoStream, NewStream, UsedStream(2)},
     archive \in {NoStream, UsedStream(3)}}

NoStreams == [i \in StreamIds |-> NoStream]

IsPrefix(p, name) == Len(p) <= Len(name) /\ SubSeq(name, 1, Len(p)) = p

\* DescribeLogStreams(logGroupName, logStreamNamePrefix): the streams of the
\* group whose name starts with the prefix, in name order
DescribeLogStreamsResponse(tab, prefix) ==
  LET Matches(i) == tab[i].exists /\ IsPrefix(prefix, StreamNames[i])
      ids == SelectSeq([i \in StreamIds |-> i], Matches)
  IN [i \in 1..Len(ids) |->
        [logStreamName |-> StreamNames[ids[i]],
         uploadSequenceToken |-> tab[ids[i]].uploadSequenceToken]]

ConfiguredStreamId == CHOOSE i \in StreamIds : StreamNames[i] = LOG_STREAM_NAME

\* error names the store answers with
AlreadyExists == "ResourceAlreadyExistsException"
AccessDenied == "AccessDeniedException"
InvalidSequenceToken == "InvalidSequenceTokenException"
ServiceUnavailable == "ServiceUnavailableException"

\* Failure details.  A detail is a sequence of pieces: the text that
\* introduces the expected token, a blank, or a run of non-blank characters.
ExpectedTokenText == "The next expected sequenceToken is: "
Blank == " "
InvalidText == "The given sequenceToken is invalid."

ExpectedTokens == {"ABC123", "49590302"}

\* the detail of a cursor conflict that reports T as the next token
ConflictDetail(T) == <<InvalidText, Blank, ExpectedTokenText, T>>
\* the same with more text after the token
ConflictDetailTail(T) == <<ExpectedTokenText, T, Blank, "(retry)">>
\* details that carry no expected token
DetailPlain == <<InvalidText>>
DetailBlankAfter == <<ExpectedTokenText, Blank, "ABC123">>
DetailCutOff == <<InvalidText, Blank, ExpectedTokenText>>

ParseableDetails == {ConflictDetail("ABC123"), ConflictDetailTail("49590302")}
UnparseableDetails == {DetailPlain, DetailBlankAfter, DetailCutOff}
ErrorDetails == ParseableDetails \cup UnparseableDetails

\* the failures the store answers the first PutLogEventsCommand with: a
\* conflict with any detail, or another failure
FirstErrors ==
  {[name |-> InvalidSequenceToken, message |-> d] : d \in ErrorDetails}
    \cup {[name |-> ServiceUnavailable, message |-> ConflictDetail("ABC123")]}
\* the failures the store answers the retry with: a conflict once more, or
\* another failure
RetryErrors ==
  {[name |-> n, message |-> ConflictDetail("49590302")] :
     n \in {InvalidSequenceToken, ServiceUnavailable}}

(***************************************************************************)
(* State                                                                   *)
(***************************************************************************)
VARIABLES
  event,          \* event.Records of the invocation
  groupExists,    \* store: the log group LOG_GROUP_NAME exists
  streams,        \* store: the streams of the log group
  stored,         \* store: the entries of the stream LOG_STREAM_NAME
  pc,             \* position of the invocation
  idx,            \* position of the for loop in event.Records
  snsMessage,     \* the decoded message of the record being processed
  message,        \* writeToCloudWatch: its argument
  sequenceToken,  \* writeToCloudWatch: the token getSequenceToken returned
  error,          \* writeToCloudWatch: the error the first submission threw
  setup,          \* history: the operations ensureLogGroupExists sent
  calls,          \* history: the store operations sent for the record
                  \*   examined last, in order
  appends,        \* history: the writeToCloudWatch calls, in order
  returns,        \* history: what writeToCloudWatch returned for the
                  \*   record examined last (empty: no call, or not yet)
  result,         \* what the handler returned or threw
  race,           \* concurrent invocations: the writeToCloudWatch call of each
  decoded         \* history: the payload as JSON.parse returned it, before
                  \*   the dispatcher changed it (processSESEvent alone)

vars ==
  <<event, groupExists, streams, stored, pc, idx, snsMessage, message,
    sequenceToken, error, setup, calls, appends, returns, result, race,
    decoded>>

storeVars == <<groupExists, streams, stored>>
writeVars == <<snsMessage, message, sequenceToken, error>>

\* what the store holds for the stream named exactly LOG_STREAM_NAME
ConfiguredStream == streams[ConfiguredStreamId]

NoError == [name |-> "", message |-> <<>>]
NoResult == [kind |-> "none"]
Returned == [kind |-> "returned", statusCode |-> 200,
             body |-> "\"Events processed successfully\""]
Thrown(name) == [kind |-> "thrown", name |-> name]

\* One store operation of the history: the record it was sent for (0 for the
\* setup), the sequenceToken it carried (for DescribeLogStreams: the token
\* getSequenceToken returned), "ok" or the name of the error, and the
\* error's message.
Call(op, rec, token, outcome, detail) ==
  [op |-> op, rec |-> rec, token |-> token, outcome |-> outcome, detail |-> detail]

Init ==
  /\ event \in Batches
  /\ groupExists \in BOOLEAN
  /\ streams \in (IF groupExists THEN StreamTables ELSE {NoStreams})
  /\ stored = <<>>
  /\ pc = "invoke"
  /\ idx = 1
  /\ snsMessage = Undefined
  /\ message = Undefined
  /\ sequenceToken = Undefined
  /\ error = NoError
  /\ setup = <<>>
  /\ calls = <<>>
  /\ appends = <<>>
  /\ returns = <<>>
  /\ result = NoResult
  /\ race = <<>>
  /\ decoded = Undefined

(***************************************************************************)
(* sesEventsHandler: entry, and ensureLogGroupExists                       *)
(***************************************************************************)
\* mutant: the handler goes straight to the loop
Invoke_SkipEnsure ==
  /\ pc = "invoke"
  /\ pc' = "loop"
  /\ UNCHANGED <<event, race, decoded, storeVars, idx, writeVars, setup, calls, appends, returns, result>>

\* the handler is entered: ensureLogGroupExists is called first
Invoke ==
  /\ pc = "invoke"
  /\ pc' = "createLogGroup"
  /\ UNCHANGED <<event, race, decoded, storeVars, idx, writeVars, setup, calls, appends, returns, result>>

\* mutant: only "already exists" is forgiven
GroupErrorTolerated_ExistsOnly(name) == name = AlreadyExists

\* mutant: every error of the stream's creation is forgiven
StreamErrorTolerated_All(name) == TRUE

\* the catch of the CreateLogGroupCommand: these errors are logged, not thrown
GroupErrorTolerated(name) == name = AlreadyExists \/ name = AccessDenied

\* the catch of the CreateLogStreamCommand
StreamErrorTolerated(name) == name = AlreadyExists \/ name = AccessDenied

CreateLogGroupOutcomes ==
  (IF groupExists THEN {AlreadyExists} ELSE {"ok"})
    \cup {AccessDenied, ServiceUnavailable}

CreateLogGroup ==
  /\ pc = "createLogGroup"
  /\ \E outcome \in CreateLogGroupOutcomes :
       /\ setup' = Append(setup, Call("CreateLogGroup", 0, Undefined, outcome, <<>>))
       /\ groupExists' = (groupExists \/ outcome = "ok")
       /\ IF outcome = "ok" \/ GroupErrorTolerated(outcome)
          THEN pc' = "createLogStream" /\ result' = result
          ELSE pc' = "raised" /\ result' = Thrown(outcome)
  /\ UNCHANGED <<event, race, decoded, streams, stored, idx, writeVars, calls, appends, returns>>

CreateLogStreamOutcomes ==
  (IF ~groupExists THEN {}
   ELSE IF streams[ConfiguredStreamId].exists THEN {AlreadyExists} ELSE {"ok"})
    \cup {AccessDenied, ServiceUnavailable}

CreateLogStream ==
  /\ pc = "createLogStream"
  /\ \E outcome \in CreateLogStreamOutcomes :
       /\ setup' = Append(setup, Call("CreateLogStream", 0, Undefined, outcome, <<>>))
       /\ streams' = IF outcome = "ok"
                     THEN [streams EXCEPT ![ConfiguredStreamId] = NewStream]
                     ELSE streams
       /\ IF outcome = "ok" \/ StreamErrorTolerated(outcome)
          THEN pc' = "loop" /\ result' = result
          ELSE pc' = "raised" /\ result' = Thrown(outcome)
  /\ UNCHANGED <<event, race, decoded, groupExists, stored, idx, writeVars, calls, appends, returns>>

(***************************************************************************)
(* sesEventsHandler: the loop over event.Records                           *)
(***************************************************************************)
InLoop == pc = "loop" /\ idx <= Len(event)

record == event[idx]
parsed == JSONParse(record.Message)

\* the test "snsMessage.eventType || snsMessage.notificationType"
IsSESEvent(payload) ==
  Truthy(Get(payload, "eventType")) \/ Truthy(Get(payload, "notificationType"))

\* mutant: notificationType is copied only when there is no eventType
WithEventType_PrimaryWins(payload) ==
  IF Truthy(Get(payload, "notificationType")) /\ ~Truthy(Get(payload, "eventType"))
  THEN SetField(payload, "eventType", Get(payload, "notificationType"))
  ELSE payload

\* the message handed to processSESEvent: "if (snsMessage.notificationType)
\* snsMessage.eventType = snsMessage.notificationType"
WithEventType(payload) ==
  IF Truthy(Get(payload, "notificationType"))
  THEN SetField(payload, "eventType", Get(payload, "notificationType"))
  ELSE payload

NextRecord ==
  /\ pc' = "loop"
  /\ idx' = idx + 1
  /\ snsMessage' = Undefined
  /\ message' = Undefined
  /\ sequenceToken' = Undefined
  /\ error' = NoError

\* the for loop is over: return { statusCode: 200, ... }
LoopExit ==
  /\ pc = "loop"
  /\ idx > Len(event)
  /\ pc' = "done"
  /\ result' = Returned
  /\ UNCHANGED <<event, race, decoded, storeVars, idx, writeVars, setup, calls, appends, returns>>

\* record.EventSource is not "aws:sns"
SkipOtherSource ==
  /\ InLoop
  /\ record.EventSource # SNS
  /\ NextRecord
  /\ calls' = <<>>
  /\ returns' = <<>>
  /\ UNCHANGED <<event, race, decoded, storeVars, setup, appends, result>>

\* mutant: the SyntaxError is not caught per record
SkipUnparseable_Throw ==
  /\ InLoop
  /\ record.EventSource = SNS
  /\ ~parsed.ok
  /\ pc' = "raised"
  /\ result' = Thrown("SyntaxError")
  /\ calls' = <<>>
  /\ returns' = <<>>
  /\ UNCHANGED <<event, race, decoded, storeVars, idx, writeVars, setup, appends>>

\* JSON.parse throws: the inner catch logs and continues
SkipUnparseable ==
  /\ InLoop
  /\ record.EventSource = SNS
  /\ ~parsed.ok
  /\ NextRecord
  /\ calls' = <<>>
  /\ returns' = <<>>
  /\ UNCHANGED <<event, race, decoded, storeVars, setup, appends, result>>

\* JSON.parse returned null: reading snsMessage.eventType throws a TypeError,
\* which the outer catch logs and throws again
ThrowOnNull ==
  /\ InLoop
  /\ record.EventSource = SNS
  /\ parsed.ok
  /\ parsed.value = Null
  /\ pc' = "raised"
  /\ result' = Thrown("TypeError")
  /\ calls' = <<>>
  /\ returns' = <<>>
  /\ UNCHANGED <<event, race, decoded, storeVars, idx, writeVars, setup, appends>>

\* neither eventType nor notificationType: "non-SES SNS message, skipping"
SkipNonSES ==
  /\ InLoop
  /\ record.EventSource = SNS
  /\ parsed.ok
  /\ parsed.value # Null
  /\ ~IsSESEvent(parsed.value)
  /\ NextRecord
  /\ calls' = <<>>
  /\ returns' = <<>>
  /\ UNCHANGED <<event, race, decoded, storeVars, setup, appends, result>>

\* mutant: writeToCloudWatch is called without await, the loop goes on
ProcessRecord_NoAwait ==
  /\ InLoop
  /\ record.EventSource = SNS
  /\ parsed.ok
  /\ parsed.value # Null
  /\ IsSESEvent(parsed.value)
  /\ snsMessage' = WithEventType(parsed.value)
  /\ message' = processSESEvent(snsMessage')
  /\ appends' = Append(appends, [rec |-> idx, message |-> message'])
  /\ pc' = "getSequenceToken"
  /\ idx' = idx + 1
  /\ calls' = <<>>
  /\ returns' = <<>>
  /\ UNCHANGED <<event, race, decoded, storeVars, sequenceToken, error, setup, result>>

\* an SES event: processSESEvent, then the call of writeToCloudWatch
ProcessRecord ==
  /\ InLoop
  /\ record.EventSource = SNS
  /\ parsed.ok
  /\ parsed.value # Null
  /\ IsSESEvent(parsed.value)
  /\ snsMessage' = WithEventType(parsed.value)
  /\ message' = processSESEvent(snsMessage')
  /\ appends' = Append(appends, [rec |-> idx, message |-> message'])
  /\ pc' = "getSequenceToken"
  /\ calls' = <<>>
  /\ returns' = <<>>
  /\ UNCHANGED <<event, race, decoded, storeVars, idx, sequenceToken, error, setup, result>>

(***************************************************************************)
(* getSequenceToken                                                        *)
(***************************************************************************)
\* what getSequenceToken makes of the response's logStreams
FirstStreamToken(logStreams) ==
  IF Len(logStreams) > 0 THEN logStreams[1].uploadSequenceToken ELSE Null

DescribeLogStreamsOutcomes ==
  (IF groupExists THEN {"ok"} ELSE {}) \cup {ServiceUnavailable}

getSequenceToken ==
  /\ pc = "getSequenceToken"
  /\ \E outcome \in DescribeLogStreamsOutcomes :
       /\ sequenceToken' =
            IF outcome = "ok"
            THEN FirstStreamToken(DescribeLogStreamsResponse(streams, LOG_STREAM_NAME))
            ELSE Null
       /\ calls' = Append(calls, Call("DescribeLogStreams", idx, sequenceToken',
                                      outcome, <<>>))
  /\ pc' = "putLogEvents"
  /\ UNCHANGED <<event, race, decoded, storeVars, idx, snsMessage, message, error, setup, appends,
               returns, result>>

(***************************************************************************)
(* writeToCloudWatch                                                       *)
(***************************************************************************)
\* mutant: the token is attached whatever getSequenceToken returned
FirstSubmissionToken_Always(token) == token

\* putLogEventsParams.sequenceToken: set only "if (sequenceToken)"
FirstSubmissionToken(token) == IF Truthy(token) THEN token ELSE Undefined

\* mutant: every failure of the first submission is retried
IsSequenceConflict_Any(err) == TRUE

\* the test that decides for the retry
IsSequenceConflict(err) == err.name = InvalidSequenceToken

\* the run of non-blank characters that starts at piece i
RECURSIVE NonBlankRun(_, _)
NonBlankRun(detail, i) ==
  IF i > Len(detail) \/ detail[i] = Blank THEN ""
  ELSE detail[i] \o NonBlankRun(detail, i + 1)

\* mutant: (\S*) in place of (\S+), which matches an empty token as well
MatchExpectedToken_Star(detail) ==
  LET starts == {i \in 1..Len(detail) : detail[i] = ExpectedTokenText}
      first == CHOOSE i \in starts : \A j \in starts : i <= j
  IN IF starts = {} THEN Null ELSE Str(NonBlankRun(detail, first + 1))

\* error.message.match(/The next expected sequenceToken is: (\S+)/): the
\* captured group of the first match, Null when there is no match
MatchExpectedToken(detail) ==
  LET starts == {i \in 1..(Len(detail) - 1) :
                   detail[i] = ExpectedTokenText /\ detail[i + 1] # Blank}
      first == CHOOSE i \in starts : \A j \in starts : i <= j
  IN IF starts = {} THEN Null ELSE Str(NonBlankRun(detail, first + 1))

\* mutant: the retry never attaches the extracted token
RetryToken_Dropped(err) == Undefined

\* retryParams.sequenceToken: set only "if (match)"
RetryToken(err) ==
  LET match == MatchExpectedToken(err.message)
  IN IF match # Null THEN match ELSE Undefined

\* the store takes the entry: it is appended and the stream's token moves on
Accept(entry) ==
  /\ stored' = Append(stored, entry)
  /\ streams' = [streams EXCEPT ![ConfiguredStreamId].uploadSequenceToken =
                   Str("next-" \o ToString(Len(stored) + 1))]
  /\ UNCHANGED groupExists

CanAccept == groupExists /\ streams[ConfiguredStreamId].exists

\* mutant: an append that fails throws instead of returning false
Return_ThrowOnFalse(value) ==
  /\ returns' = <<[rec |-> idx, value |-> value]>>
  /\ pc' = IF value THEN "loop" ELSE "raised"
  /\ idx' = IF value THEN idx + 1 ELSE idx
  /\ snsMessage' = Undefined
  /\ message' = Undefined
  /\ sequenceToken' = Undefined
  /\ error' = NoError

\* writeToCloudWatch returns value: the loop logs it and goes on
Return(value) ==
  /\ returns' = <<[rec |-> idx, value |-> value]>>
  /\ NextRecord

\* the first PutLogEventsCommand succeeds: return true
FirstSubmitAccepted ==
  /\ pc = "putLogEvents"
  /\ CanAccept
  /\ calls' = Append(calls, Call("PutLogEvents", idx,
                                 FirstSubmissionToken(sequenceToken), "ok", <<>>))
  /\ Accept([rec |-> idx, message |-> message])
  /\ Return(TRUE)
  /\ UNCHANGED <<event, race, decoded, setup, appends, result>>

\* the first PutLogEventsCommand throws
FirstSubmitRejected ==
  /\ pc = "putLogEvents"
  /\ \E err \in FirstErrors :
       /\ calls' = Append(calls, Call("PutLogEvents", idx,
                                      FirstSubmissionToken(sequenceToken),
                                      err.name, err.message))
       /\ IF IsSequenceConflict(err)
          THEN /\ pc' = "retry"
               /\ error' = err
               /\ UNCHANGED <<idx, snsMessage, message, sequenceToken, returns>>
          ELSE Return(FALSE)
  /\ UNCHANGED <<event, race, decoded, storeVars, setup, appends, result>>

\* the retry succeeds: return true
RetryAccepted ==
  /\ pc = "retry"
  /\ CanAccept
  /\ calls' = Append(calls, Call("PutLogEvents", idx, RetryToken(error), "ok", <<>>))
  /\ Accept([rec |-> idx, message |-> message])
  /\ Return(TRUE)
  /\ UNCHANGED <<event, race, decoded, setup, appends, result>>

\* mutant: the failure of the retry is thrown out of writeToCloudWatch
RetryRejected_Throw ==
  /\ pc = "retry"
  /\ \E err \in RetryErrors :
       /\ calls' = Append(calls, Call("PutLogEvents", idx, RetryToken(error),
                                      err.name, err.message))
       /\ result' = Thrown(err.name)
  /\ pc' = "raised"
  /\ UNCHANGED <<event, race, decoded, storeVars, idx, writeVars, setup, appends, returns>>

\* the retry throws: return false
RetryRejected ==
  /\ pc = "retry"
  /\ \E err \in RetryErrors :
       calls' = Append(calls, Call("PutLogEvents", idx, RetryToken(error),
                                   err.name, err.message))
  /\ Return(FALSE)
  /\ UNCHANGED <<event, race, decoded, storeVars, setup, appends, result>>

writeToCloudWatch ==
  \/ getSequenceToken
  \/ FirstSubmitAccepted
  \/ FirstSubmitRejected
  \/ RetryAccepted
  \/ RetryRejected

ensureLogGroupExists == CreateLogGroup \/ CreateLogStream

sesEventsHandler ==
  \/ Invoke
  \/ LoopExit
  \/ SkipOtherSource
  \/ SkipUnparseable
  \/ ThrowOnNull
  \/ SkipNonSES
  \/ ProcessRecord

Next == sesEventsHandler \/ ensureLogGroupExists \/ writeToCloudWatch

Spec == Init /\ [][Next]_vars

\* An invocation with one record, which calls writeToCloudWatch once at
\* most.  The runtime keeps running the handler, and every awaited send
\* settles: a step that can be taken is taken in the end.
InitAppend == Init /\ Len(event) = 1

SpecAppend == InitAppend /\ [][Next]_vars /\ WF_vars(Next)

(***************************************************************************)
(* processSESEvent alone: one decoded payload, handed to processSESEvent   *)
(* as it is, or by the dispatcher of sesEventsHandler                      *)
(***************************************************************************)
Absent == "(absent)"

\* the case labels of the switch in processSESEvent
KindSpellings ==
  {"Bounce", "bounce", "Complaint", "complaint", "Delivery", "delivery",
   "Send", "send", "Reject", "reject", "Rendering Failure", "renderingFailure"}

\* the values of snsMessage.eventType and of snsMessage.notificationType
EventTypes == KindSpellings \cup {"RenderingFailure", "Open", "", Absent}
NotificationTypes == {"Bounce", "Complaint", "Delivery", "", Absent}

MailShapes == {"absent", "null", "empty", "blank", "full"}
SectionShapes == {"absent", "blank", "full"}

OptField(name, present, value) == IF present THEN name :> value ELSE <<>>

\* snsMessage.mail
Mail(shape) ==
  CASE shape = "null" -> Null
    [] shape = "empty" -> EmptyObj
    [] shape = "blank" ->
         Obj(("messageId" :> Str(""))
               @@ ("destination" :> Arr(<<>>))
               @@ ("source" :> Null)
               @@ ("commonHeaders" :> EmptyObj))
    [] OTHER ->
         Obj(("messageId" :> Str("m-1"))
               @@ ("destination" :>
                     Arr(<<Str("rcpt@example.com"), Str("second@example.com")>>))
               @@ ("source" :> Str("sender@example.com"))
               @@ ("commonHeaders" :> Obj("subject" :> Str("Hello"))))

\* snsMessage.bounce, .complaint, .delivery, .reject and .failure: all filled
\* in, or all there with nothing of use in them
Sections(shape) ==
  IF shape = "full"
  THEN ("bounce" :> Obj(("bounceType" :> Str("Permanent"))
                          @@ ("bounceSubType" :> Str("General"))
                          @@ ("bouncedRecipients" :>
                                Arr(<<Obj("emailAddress" :> Str("rcpt@example.com"))>>))))
         @@ ("complaint" :> Obj(("complaintFeedbackType" :> Str("abuse"))
                                  @@ ("complainedRecipients" :>
                                        Arr(<<Obj("emailAddress" :>
                                                    Str("rcpt@example.com"))>>))))
         @@ ("delivery" :> Obj(("processingTimeMillis" :> Num(250))
                                 @@ ("smtpResponse" :> Str("250 OK"))))
         @@ ("reject" :> Obj("reason" :> Str("Bad content")))
         @@ ("failure" :> Obj(("errorMessage" :> Str("Missing attribute"))
                                @@ ("templateName" :> Str("welcome"))))
  ELSE ("bounce" :> Obj("bounceType" :> Str("")))
         @@ ("complaint" :> Null)
         @@ ("delivery" :> Obj(("processingTimeMillis" :> Num(0))
                                 @@ ("smtpResponse" :> Null)))
         @@ ("reject" :> EmptyObj)
         @@ ("failure" :> Str("failed"))

\* a decoded payload
Payload(eventType, notificationType, mail, sections) ==
  Obj(OptField("eventType", eventType # Absent, Str(eventType))
        @@ OptField("notificationType", notificationType # Absent, Str(notificationType))
        @@ OptField("mail", mail # "absent", Mail(mail))
        @@ (IF sections = "absent" THEN <<>> ELSE Sections(sections)))

InitNormalize ==
  /\ \E eventType \in EventTypes, notificationType \in NotificationTypes,
        mail \in MailShapes, sections \in SectionShapes :
       snsMessage = Payload(eventType, notificationType, mail, sections)
  /\ decoded = snsMessage
  /\ pc = "decoded"
  /\ message = Undefined
  /\ event = <<>>
  /\ groupExists = TRUE
  /\ streams = NoStreams
  /\ stored = <<>>
  /\ idx = 1
  /\ sequenceToken = Undefined
  /\ error = NoError
  /\ setup = <<>>
  /\ calls = <<>>
  /\ appends = <<>>
  /\ returns = <<>>
  /\ result = NoResult
  /\ race = <<>>

\* processSESEvent(snsMessage), for the payload as it was decoded
CallProcessSESEvent ==
  /\ pc = "decoded"
  /\ message' = processSESEvent(snsMessage)
  /\ pc' = "normalized"
  /\ UNCHANGED <<event, race, decoded, storeVars, idx, snsMessage, sequenceToken, error,
                 setup, calls, appends, returns, result>>

\* the dispatcher on an SES event: notificationType is copied into eventType
\* of the payload itself, then processSESEvent is called
DispatchSESEvent ==
  /\ pc = "decoded"
  /\ IsSESEvent(snsMessage)
  /\ snsMessage' = WithEventType(snsMessage)
  /\ message' = processSESEvent(snsMessage')
  /\ pc' = "processed"
  /\ UNCHANGED <<event, race, decoded, storeVars, idx, sequenceToken, error, setup,
                 calls, appends, returns, result>>

\* the dispatcher on a payload without eventType and notificationType
DispatchSkip ==
  /\ pc = "decoded"
  /\ ~IsSESEvent(snsMessage)
  /\ pc' = "skipped"
  /\ UNCHANGED <<event, race, decoded, storeVars, idx, writeVars, setup, calls, appends,
                 returns, result>>

NextNormalize == CallProcessSESEvent \/ DispatchSESEvent \/ DispatchSkip

SpecNormalize == InitNormalize /\ [][NextNormalize]_vars

(***************************************************************************)
(* Concurrent invocations: each runs one writeToCloudWatch call against    *)
(* the same stream.  The store takes a PutLogEvents only with the token    *)
(* the stream is at, and says which one that is when it refuses.           *)
(***************************************************************************)
MaxInvocations == 2

Invocations == 1..MaxInvocations

\* the two invocations of the race of two
RaceProcs == {1, 2}

\* a writeToCloudWatch call that has just been entered
CallEntered ==
  [pc |-> "getSequenceToken", sequenceToken |-> Undefined, error |-> NoError,
   puts |-> 0, value |-> FALSE]

\* the failures that are no cursor conflict
OtherFaults == {ServiceUnavailable}

\* the store takes a submission that carries token
TokenCurrent(token) == token = ConfiguredStream.uploadSequenceToken

\* the InvalidSequenceTokenException of the store: it names the token the
\* stream is at
StaleTokenError ==
  [name |-> InvalidSequenceToken,
   message |-> ConflictDetail(IF ConfiguredStream.uploadSequenceToken = Undefined
                              THEN "null"
                              ELSE ConfiguredStream.uploadSequenceToken.s)]

\* The log group when the invocations start: the configured stream is there,
\* written or not; the other two streams may be there.
RaceStreamTables ==
  {<<other, configured, archive>> :
     other \in {NoStream, UsedStream(1)},
     configured \in {NewStream, UsedStream(2)},
     archive \in {NoStream, UsedStream(3)}}

InitStore ==
  /\ groupExists = TRUE
  /\ streams \in RaceStreamTables
  /\ stored = <<>>

InitRace(procs) ==
  /\ InitStore
  /\ race = [p \in procs |-> CallEntered]
  /\ pc = "concurrent"
  /\ event = <<>>
  /\ idx = 1
  /\ snsMessage = Undefined
  /\ message = Undefined
  /\ sequenceToken = Undefined
  /\ error = NoError
  /\ setup = <<>>
  /\ calls = <<>>
  /\ appends = <<>>
  /\ returns = <<>>
  /\ result = NoResult
  /\ decoded = Undefined

handlerVars ==
  <<event, pc, idx, writeVars, setup, calls, appends, returns, result, decoded>>

\* the log entry invocation p writes
EntryOf(p) == [rec |-> p, message |-> Str("event-" \o ToString(p))]

\* getSequenceToken of invocation p; the lookup answers with one of outcomes
RaceLookup(p, outcomes) ==
  /\ race[p].pc = "getSequenceToken"
  /\ \E outcome \in outcomes :
       race' = [race EXCEPT
                  ![p].sequenceToken =
                     IF outcome = "ok"
                     THEN FirstStreamToken(
                            DescribeLogStreamsResponse(streams, LOG_STREAM_NAME))
                     ELSE Null,
                  ![p].pc = "putLogEvents"]
  /\ UNCHANGED <<storeVars, handlerVars>>

\* mutant: a first submission that was taken is retried all the same
RaceSend_RetryAfterSuccess(p, token, faults, first) ==
  \/ /\ TokenCurrent(token)
     /\ Accept(EntryOf(p))
     /\ race' = [race EXCEPT ![p].pc = IF first THEN "retry" ELSE "returned",
                             ![p].value = TRUE,
                             ![p].puts = @ + 1]
  \/ /\ ~TokenCurrent(token)
     /\ race' = [race EXCEPT
                   ![p].pc = IF first /\ IsSequenceConflict(StaleTokenError)
                             THEN "retry" ELSE "returned",
                   ![p].error = IF first THEN StaleTokenError ELSE @,
                   ![p].value = FALSE,
                   ![p].puts = @ + 1]
     /\ UNCHANGED storeVars
  \/ /\ \E name \in faults :
          race' = [race EXCEPT
                     ![p].pc = IF first /\ IsSequenceConflict([name |-> name])
                               THEN "retry" ELSE "returned",
                     ![p].value = FALSE,
                     ![p].puts = @ + 1]
     /\ UNCHANGED storeVars

\* one PutLogEventsCommand of invocation p, carrying token: the store takes
\* it when the token is the stream's, refuses it as stale otherwise, or fails
\* with one of faults.  A refusal of the first submission is retried, every
\* other answer ends the call.
RaceSend(p, token, faults, first) ==
  \/ /\ TokenCurrent(token)
     /\ Accept(EntryOf(p))
     /\ race' = [race EXCEPT ![p].pc = "returned", ![p].value = TRUE,
                             ![p].puts = @ + 1]
  \/ /\ ~TokenCurrent(token)
     /\ race' = [race EXCEPT
                   ![p].pc = IF first /\ IsSequenceConflict(StaleTokenError)
                             THEN "retry" ELSE "returned",
                   ![p].error = IF first THEN StaleTokenError ELSE @,
                   ![p].value = FALSE,
                   ![p].puts = @ + 1]
     /\ UNCHANGED storeVars
  \/ /\ \E name \in faults :
          race' = [race EXCEPT
                     ![p].pc = IF first /\ IsSequenceConflict([name |-> name])
                               THEN "retry" ELSE "returned",
                     ![p].value = FALSE,
                     ![p].puts = @ + 1]
     /\ UNCHANGED storeVars

\* mutant: a refused first submission ends the call with false
RaceFirstSubmit_NoRetry(p, faults) ==
  /\ race[p].pc = "putLogEvents"
  /\ RaceSend(p, FirstSubmissionToken(race[p].sequenceToken), faults, FALSE)
  /\ UNCHANGED handlerVars

\* the first submission of invocation p
RaceFirstSubmit(p, faults) ==
  /\ race[p].pc = "putLogEvents"
  /\ RaceSend(p, FirstSubmissionToken(race[p].sequenceToken), faults, TRUE)
  /\ UNCHANGED handlerVars

\* the retry of invocation p
RaceRetry(p, faults) ==
  /\ race[p].pc = "retry"
  /\ RaceSend(p, RetryToken(race[p].error), faults, FALSE)
  /\ UNCHANGED handlerVars

\* two invocations, a store that refuses stale tokens and does nothing else
InitRaceTwo == InitRace(RaceProcs)

NextRaceTwo ==
  \E p \in RaceProcs :
    \/ RaceLookup(p, {"ok"})
    \/ RaceFirstSubmit(p, {})
    \/ RaceRetry(p, {})

\* every awaited send of every invocation settles
SpecRaceTwo == InitRaceTwo /\ [][NextRaceTwo]_vars /\ WF_vars(NextRaceTwo)

\* any number of invocations, a store that can fail any operation
InitRaceAll == InitRace(Invocations)

NextRaceAll ==
  \E p \in Invocations :
    \/ RaceLookup(p, {"ok", ServiceUnavailable})
    \/ RaceFirstSubmit(p, OtherFaults)
    \/ RaceRetry(p, OtherFaults)

SpecRaceAll == InitRaceAll /\ [][NextRaceAll]_vars

(***************************************************************************)
(* Reading the history                                                     *)
(***************************************************************************)
RecordIds == 1..Len(event)

IsPut(c) == c.op = "PutLogEvents"
IsLookup(c) == c.op = "DescribeLogStreams"

\* the PutLogEvents submissions made for record r, in order
Puts(r) == SelectSeq(calls, LAMBDA c : IsPut(c) /\ c.rec = r)
\* the DescribeLogStreams lookups made for record r
Lookups(r) == SelectSeq(calls, LAMBDA c : IsLookup(c) /\ c.rec = r)

HasReturned(r) == \E k \in 1..Len(returns) : returns[k].rec = r
ReturnedValue(r, value) ==
  \E k \in 1..Len(returns) : returns[k].rec = r /\ returns[k].value = value

FirstPutConflict(r, details) ==
  /\ Len(Puts(r)) >= 1
  /\ Puts(r)[1].outcome = InvalidSequenceToken
  /\ Puts(r)[1].detail \in details

\* one retry, carrying token, decides what the append returns
OneRetryWith(r, token) ==
  /\ Len(Puts(r)) <= 2
  /\ Len(Puts(r)) = 2 => Puts(r)[2].token = token
  /\ HasReturned(r) =>
       /\ Len(Puts(r)) = 2
       /\ ReturnedValue(r, Puts(r)[2].outcome = "ok")
       /\ ~ReturnedValue(r, Puts(r)[2].outcome # "ok")

(***************************************************************************)
(* Claims                                                                  *)
(***************************************************************************)

C2_UnparseableReturnsFalse ==
  \A r \in RecordIds :
    (FirstPutConflict(r, UnparseableDetails) /\ HasReturned(r))
      => ReturnedValue(r, FALSE)

\* C2 amended: when the first PutLogEvents fails with a conflict whose
\* message holds no expected token, exactly one retry is submitted, it
\* carries no sequenceToken, and the append returns true iff that retry
\* succeeds.
C2_UnparseableRetriesWithoutToken ==
  \A r \in RecordIds :
    FirstPutConflict(r, UnparseableDetails) => OneRetryWith(r, Undefined)

\* a conflict whose message has a blank where the token should start: the
\* retry went out without a token, was accepted, and the append returned true
C2_Witness ==
  \E r \in RecordIds :
    /\ FirstPutConflict(r, {DetailBlankAfter})
    /\ Len(Puts(r)) = 2
    /\ Puts(r)[2].token = Undefined
    /\ Puts(r)[2].outcome = "ok"
    /\ ReturnedValue(r, TRUE)

\* C3: when the first PutLogEvents fails with an error that is not an
\* InvalidSequenceTokenException, the append returns false and no second
\* PutLogEvents is submitted for that record.
C3_OtherFailureNoRetry ==
  \A r \in RecordIds :
    (/\ Len(Puts(r)) >= 1
     /\ Puts(r)[1].outcome \notin {"ok", InvalidSequenceToken})
      => /\ Len(Puts(r)) = 1
         /\ ReturnedValue(r, FALSE)
         /\ ~ReturnedValue(r, TRUE)

\* a non-conflict failure whose message even reports a token, followed by
\* the next record's lookup: nothing was retried
C3_Witness ==
  \E r \in RecordIds :
    /\ Len(Puts(r)) = 1
    /\ Puts(r)[1].outcome = ServiceUnavailable
    /\ Puts(r)[1].detail = ConflictDetail("ABC123")
    /\ ReturnedValue(r, FALSE)
    /\ idx > r

\* C4: a successful lookup returns the token of the stream whose name is
\* exactly LOG_STREAM_NAME, whatever other streams the log group holds, and
\* no token when that stream has none.
C4_LookupReturnsExactStreamToken ==
  (/\ pc = "putLogEvents"
   /\ calls[Len(calls)].outcome = "ok")
    => IF ConfiguredStream.exists /\ Truthy(ConfiguredStream.uploadSequenceToken)
       THEN sequenceToken = ConfiguredStream.uploadSequenceToken
       ELSE ~Truthy(sequenceToken)

\* C5: the first PutLogEvents of an append carries no sequenceToken when the
\* lookup failed or the stream has no token yet, and carries exactly the
\* token the lookup found otherwise; when the store accepts that first
\* submission the append returns true.
C5_FirstSubmissionCursor ==
  [][(pc = "putLogEvents" /\ pc' # "putLogEvents") =>
       LET lookup == calls[Len(calls)]
           put == calls'[Len(calls')]
       IN /\ IsLookup(lookup) /\ lookup.rec = idx
          /\ Len(calls') = Len(calls) + 1
          /\ IsPut(put) /\ put.rec = idx
          /\ lookup.outcome # "ok" => put.token = Undefined
          /\ (/\ lookup.outcome = "ok"
              /\ ConfiguredStream.exists
              /\ ConfiguredStream.uploadSequenceToken = Undefined)
               => put.token = Undefined
          /\ (/\ lookup.outcome = "ok"
              /\ ConfiguredStream.exists
              /\ ConfiguredStream.uploadSequenceToken # Undefined)
               => put.token = ConfiguredStream.uploadSequenceToken
          /\ Truthy(lookup.token) => put.token = lookup.token
          /\ ~Truthy(lookup.token) => put.token = Undefined
          /\ put.outcome = "ok" => returns' = <<[rec |-> idx, value |-> TRUE]>>]_vars

\* an append whose lookup failed, whose first submission went out without a
\* token and was accepted, and which returned true
C5_Witness ==
  \E r \in RecordIds :
    /\ Len(Lookups(r)) = 1 /\ Lookups(r)[1].outcome = ServiceUnavailable
    /\ Len(Puts(r)) = 1 /\ Puts(r)[1].token = Undefined
    /\ Puts(r)[1].outcome = "ok"
    /\ ReturnedValue(r, TRUE)

\* the outcomes of a creation after which the destination is taken to exist
Tolerable == {"ok", AlreadyExists, AccessDenied}

EnsureCompleted ==
  /\ Len(setup) = 2
  /\ setup[1].op = "CreateLogGroup" /\ setup[1].outcome \in Tolerable
  /\ setup[2].op = "CreateLogStream" /\ setup[2].outcome \in Tolerable

\* the positions of the invocation inside the loop over the records
LoopPositions == {"loop", "getSequenceToken", "putLogEvents", "retry"}

\* the handler threw while a record was being processed
ThrownInLoop == pc = "raised" /\ result = Thrown("TypeError")

\* C6: whichever of created, already-exists and access-denied the creation
\* of the log group answers, the creation of the stream is attempted next;
\* and whichever of the three that one answers, ensureLogGroupExists
\* completes without throwing and the loop over the records runs.
C6_EnsureToleratesExistsAndDenied ==
  /\ (Len(setup) >= 1 /\ setup[1].outcome \in Tolerable)
       => \/ pc = "createLogStream"
          \/ Len(setup) >= 2 /\ setup[2].op = "CreateLogStream"
  /\ EnsureCompleted
       => \/ pc \in LoopPositions
          \/ pc = "done" /\ result = Returned
          \/ ThrownInLoop

\* access-denied on the log group, already-exists on the stream, and the
\* batch was then processed to its end
C6_Witness ==
  /\ EnsureCompleted
  /\ setup[1].outcome = AccessDenied
  /\ setup[2].outcome = AlreadyExists
  /\ pc = "done"
  /\ Len(appends) >= 1

\* C7: a creation that fails with any other error throws that error out of
\* the handler: no status-200 result, no record processed, no lookup and no
\* PutLogEvents; when it is the log group's creation that fails, the
\* stream's creation is not attempted either.
C7_FatalSetupAborts ==
  /\ (Len(setup) >= 1 /\ setup[1].outcome \notin Tolerable)
       => /\ pc = "raised" /\ result = Thrown(setup[1].outcome)
          /\ Len(setup) = 1
          /\ idx = 1 /\ calls = <<>> /\ appends = <<>> /\ returns = <<>>
          /\ stored = <<>>
  /\ (Len(setup) >= 2 /\ setup[2].outcome \notin Tolerable)
       => /\ pc = "raised" /\ result = Thrown(setup[2].outcome)
          /\ Len(setup) = 2
          /\ idx = 1 /\ calls = <<>> /\ appends = <<>> /\ returns = <<>>
          /\ stored = <<>>

\* the stream's creation failed fatally for a batch that has a record to log
C7_Witness ==
  /\ Len(setup) = 2
  /\ setup[2].op = "CreateLogStream"
  /\ setup[2].outcome = ServiceUnavailable
  /\ pc = "raised"
  /\ \E r \in RecordIds : event[r] = [EventSource |-> SNS, Message |-> TxtBounce]

\* C8: ensureLogGroupExists runs once per invocation and is over before the
\* first record is examined, for every batch: each creation is sent at most
\* once, they are the first two store operations, and the invocation is in
\* the loop, or past it, only after both.
C8_EnsureOnceBeforeLoop ==
  /\ Len(setup) <= 2
  /\ \A k \in 1..Len(setup) :
       /\ setup[k].op = "CreateLogGroup" <=> k = 1
       /\ setup[k].op = "CreateLogStream" <=> k = 2
  /\ \A k \in 1..Len(calls) : IsLookup(calls[k]) \/ IsPut(calls[k])
  /\ (\/ pc \in LoopPositions
      \/ pc = "done"
      \/ ThrownInLoop
      \/ idx > 1
      \/ calls # <<>>
      \/ appends # <<>>) => EnsureCompleted

\* a batch without any relevant record, processed to its end after the setup
C8_Witness ==
  /\ pc = "done"
  /\ Len(event) >= 1
  /\ appends = <<>>
  /\ calls = <<>>
  /\ EnsureCompleted

\* a record is relevant when it comes from SNS, its message decodes, and the
\* decoded message has an eventType or a notificationType
Decodes(r) == JSONParse(event[r].Message).ok
Decoded(r) == JSONParse(event[r].Message).value
HasDiscriminator(v) ==
  /\ v.t = "object"
  /\ \E name \in {"eventType", "notificationType"} :
       name \in DOMAIN v.f /\ Truthy(v.f[name])
Relevant(r) ==
  /\ event[r].EventSource = SNS
  /\ Decodes(r)
  /\ HasDiscriminator(Decoded(r))
Undecodable(r) == event[r].EventSource = SNS /\ ~Decodes(r)

AppendedFor(r) == \E k \in 1..Len(appends) : appends[k].rec = r

\* C9: when the invocation is over after a completed setup, the
\* writeToCloudWatch calls are exactly the relevant records of the batch,
\* one call each.
C9_OneAppendPerRelevantRecord ==
  (EnsureCompleted /\ pc \in {"done", "raised"})
    => /\ Len(appends) = Cardinality({r \in RecordIds : Relevant(r)})
       /\ \A r \in RecordIds : Relevant(r) <=> AppendedFor(r)

\* C10: a record whose message does not decode is skipped without throwing:
\* the invocation never throws at such a record, no append is made for it,
\* and an invocation that reaches its end returns the normal result with
\* every relevant later record appended.
C10_UndecodableIsSkipped ==
  \A r \in RecordIds :
    Undecodable(r)
      => /\ ~(ThrownInLoop /\ idx = r)
         /\ pc = "raised" /\ EnsureCompleted => idx # r
         /\ ~AppendedFor(r)
         /\ pc = "done"
              => /\ result = Returned
                 /\ \A q \in RecordIds : (q > r /\ Relevant(q)) => AppendedFor(q)

\* an undecodable record followed by a relevant one that got its append, in
\* an invocation that returned
C10_Witness ==
  \E r, q \in RecordIds :
    /\ Undecodable(r)
    /\ q > r /\ Relevant(q) /\ AppendedFor(q) /\ HasReturned(q)
    /\ pc = "done" /\ result = Returned

\* C11: a record whose message decodes, to any value, without an eventType
\* and without a notificationType is skipped without throwing: the invocation
\* never throws at such a record and no append is made for it.
C11_NoDiscriminatorIsSkipped ==
  \A r \in RecordIds :
    (/\ event[r].EventSource = SNS
     /\ Decodes(r)
     /\ ~HasDiscriminator(Decoded(r)))
      => /\ ~(ThrownInLoop /\ idx = r)
         /\ ~AppendedFor(r)

\* the entries of the stream that were written for record r
StoredFor(r) == \E k \in 1..Len(stored) : stored[k].rec = r

\* the append for record r is over and returned false: it was called, the
\* loop has moved on, and nothing was written for r
FailedAppend(r) == AppendedFor(r) /\ idx > r /\ ~StoredFor(r)

\* C12: an append that returns false does not throw and does not stop the
\* batch: the step that returns false leaves the handler in the loop at the
\* next record; the handler throws inside the loop only at a record that
\* decodes to null, before any append for it; what an append returned and
\* what the stream holds agree; and an invocation that reaches its end after
\* failed appends has called append for every relevant later record and
\* returns the status-200 result.
C12_FailedAppendContinues ==
  /\ [][(returns' # returns /\ returns' # <<>> /\ ~returns'[1].value)
          => /\ pc' = "loop"
             /\ idx' = idx + 1
             /\ returns'[1].rec = idx
             /\ result' = NoResult]_vars
  /\ [](\A r \in RecordIds :
          /\ (ThrownInLoop /\ idx = r) => (Decoded(r) = Null /\ ~AppendedFor(r))
          /\ ReturnedValue(r, TRUE) => StoredFor(r)
          /\ ReturnedValue(r, FALSE) => ~StoredFor(r)
          /\ (FailedAppend(r) /\ pc = "done")
               => /\ result = Returned
                  /\ \A q \in RecordIds : (q > r /\ Relevant(q)) => AppendedFor(q))

\* the first append failed, the second record was appended all the same, and
\* the invocation returned its normal result
C12_Witness ==
  \E r, q \in RecordIds :
    /\ FailedAppend(r)
    /\ q > r /\ Relevant(q) /\ AppendedFor(q)
    /\ pc = "done" /\ result = Returned

(***************************************************************************)
(* Claims about processSESEvent                                            *)
(***************************************************************************)
BaseFields == {"timestamp", "messageId", "eventType", "recipient", "source", "subject"}

\* the payload's eventType is the string k
HasKind(payload, k) == Get(payload, "eventType") = Str(k)

\* the other spelling of a kind, as the claim pairs them: first letter
\* capitalized against all lowercase
Capitalized(k) ==
  CASE k = "bounce" -> "Bounce"
    [] k = "complaint" -> "Complaint"
    [] k = "delivery" -> "Delivery"
    [] k = "send" -> "Send"
    [] k = "reject" -> "Reject"
    [] k = "renderingFailure" -> "RenderingFailure"

LowercaseKinds == {"bounce", "complaint", "delivery", "send", "reject", "renderingFailure"}

\* the other spelling as the case labels of the switch pair them
CaseLabelOf(k) == IF k = "renderingFailure" THEN "Rendering Failure" ELSE Capitalized(k)

\* C13 as stated: for each kind and every payload, processSESEvent gives the
\* same output object for the payload with the kind spelled lowercase and
\* for the same payload with the kind spelled capitalized.
C13_SpellingsGiveIdenticalOutput ==
  \A k \in LowercaseKinds :
    (pc = "normalized" /\ HasKind(snsMessage, k))
      => message = processSESEvent(SetField(snsMessage, "eventType", Str(Capitalized(k))))

\* C13: for each pair of case labels of the switch (Bounce/bounce,
\* Complaint/complaint, Delivery/delivery, Send/send, Reject/reject,
\* "Rendering Failure"/renderingFailure) and every payload, the two outputs
\* have the same fields and agree on every field except eventType and
\* rawEvent, which carry the spelling the payload came with.
C13_SpellingsAgreeButEcho ==
  \A k \in LowercaseKinds :
    (pc = "normalized" /\ HasKind(snsMessage, k))
      => LET respelled == SetField(snsMessage, "eventType", Str(CaseLabelOf(k)))
             other == processSESEvent(respelled)
         IN /\ DOMAIN message.f = DOMAIN other.f
            /\ \A f \in DOMAIN message.f \ {"eventType", "rawEvent"} :
                 message.f[f] = other.f[f]
            /\ message.f.eventType = Str(k)
            /\ other.f.eventType = Str(CaseLabelOf(k))
            /\ message.f.rawEvent = snsMessage
            /\ other.f.rawEvent = respelled

\* a lowercase bounce with a filled-in bounce section has been processed and
\* carries the section's fields
C13_Witness ==
  /\ pc = "normalized"
  /\ HasKind(snsMessage, "bounce")
  /\ Get(Get(snsMessage, "bounce"), "bounceType") = Str("Permanent")
  /\ message.f.bounceType = Str("Permanent")
  /\ message.f.bouncedRecipients # Arr(<<>>)

\* the value a field of the output has: the source value when there is a
\* usable one, the default otherwise
Defaulted(source, default) == IF Truthy(source) THEN source ELSE default

\* the kind-specific fields of a kind, each with the section and the default
\* it has
KindFields(k) ==
  CASE k \in {"Bounce", "bounce"} ->
         {<<"bounce", "bounceType", Str("unknown")>>,
          <<"bounce", "bounceSubType", Str("unknown")>>,
          <<"bounce", "bouncedRecipients", Arr(<<>>)>>}
    [] k \in {"Complaint", "complaint"} ->
         {<<"complaint", "complaintFeedbackType", Str("unknown")>>,
          <<"complaint", "complainedRecipients", Arr(<<>>)>>}
    [] k \in {"Delivery", "delivery"} ->
         {<<"delivery", "processingTimeMillis", Num(0)>>,
          <<"delivery", "smtpResponse", Str("unknown")>>}
    [] k \in {"Reject", "reject"} -> {<<"reject", "reason", Str("unknown")>>}
    [] k \in {"Rendering Failure", "renderingFailure"} ->
         {<<"failure", "errorMessage", Str("unknown")>>,
          <<"failure", "templateName", Str("unknown")>>}
    [] OTHER -> {}

\* C14: for every payload object, processSESEvent returns a record that has
\* each base field, none of them undefined or null: the payload's value
\* where it has one and "unknown" where it omits it (the whole mail section
\* included); and each kind-specific field is the section's value or its
\* default, the empty list for the lists, 0 for processingTimeMillis and
\* "unknown" for the rest.
C14_BaseFieldsAlwaysPresent ==
  pc = "normalized" =>
    LET mail == Get(snsMessage, "mail")
        unknown == Str("unknown")
    IN /\ message.t = "object"
       /\ BaseFields \subseteq DOMAIN message.f
       /\ \A f \in BaseFields : message.f[f] # Undefined /\ message.f[f] # Null
       /\ message.f.timestamp = NowISO
       /\ message.f.messageId = Defaulted(OptGet(mail, "messageId"), unknown)
       /\ message.f.eventType = Defaulted(Get(snsMessage, "eventType"), unknown)
       /\ message.f.recipient =
            Defaulted(OptFirst(OptGet(mail, "destination")), unknown)
       /\ message.f.source = Defaulted(OptGet(mail, "source"), unknown)
       /\ message.f.subject =
            Defaulted(OptGet(OptGet(mail, "commonHeaders"), "subject"), unknown)
       /\ \A k \in KindSpellings :
            HasKind(snsMessage, k) =>
              \A kf \in KindFields(k) :
                /\ kf[2] \in DOMAIN message.f
                /\ message.f[kf[2]] =
                     Defaulted(OptGet(Get(snsMessage, kf[1]), kf[2]), kf[3])

\* a bounce without a mail section and without a bounce section has been
\* processed: every base field but eventType is "unknown", the list is empty
C14_Witness ==
  /\ pc = "normalized"
  /\ HasKind(snsMessage, "Bounce")
  /\ "mail" \notin DOMAIN snsMessage.f
  /\ "bounce" \notin DOMAIN snsMessage.f
  /\ message.f.messageId = Str("unknown")
  /\ message.f.recipient = Str("unknown")
  /\ message.f.source = Str("unknown")
  /\ message.f.subject = Str("unknown")
  /\ message.f.eventType = Str("Bounce")
  /\ message.f.bounceType = Str("unknown")
  /\ message.f.bouncedRecipients = Arr(<<>>)

\* the payload that carries kind as its eventType and no notificationType,
\* and is the given payload in everything else
OnlyEventType(payload, kind) ==
  Obj([f \in ((DOMAIN payload.f) \ {"notificationType"}) \cup {"eventType"} |->
         IF f = "eventType" THEN kind ELSE payload.f[f]])

\* C19: the dispatcher hands every payload that has a discriminator to
\* processSESEvent; the eventType of the record it gets back, and of the
\* payload kept in it, is notificationType when the payload has one (also
\* when it has another eventType as well) and eventType otherwise; and all
\* fields of the record but rawEvent are those of the payload that carries
\* that kind as its eventType alone.
C19_LegacyDiscriminatorWins ==
  [][pc = "decoded" /\ pc' \in {"processed", "skipped"}
       => LET legacy == Get(snsMessage, "notificationType")
              primary == Get(snsMessage, "eventType")
              kind == IF Truthy(legacy) THEN legacy ELSE primary
              alone == processSESEvent(OnlyEventType(snsMessage, kind))
          IN /\ pc' = "processed" <=> (Truthy(legacy) \/ Truthy(primary))
             /\ pc' = "processed" =>
                  /\ message'.f.eventType = kind
                  /\ Get(message'.f.rawEvent, "eventType") = kind
                  /\ DOMAIN message'.f = DOMAIN alone.f
                  /\ \A f \in DOMAIN message'.f \ {"rawEvent"} :
                       message'.f[f] = alone.f[f]]_vars

\* a payload that came with eventType Bounce and notificationType Complaint
\* has gone through the dispatcher: it is recorded as a Complaint, with the
\* fields of a complaint and none of a bounce
C19_Witness ==
  /\ pc = "processed"
  /\ Get(decoded, "eventType") = Str("Bounce")
  /\ Get(decoded, "notificationType") = Str("Complaint")
  /\ Get(Get(decoded, "complaint"), "complaintFeedbackType") = Str("abuse")
  /\ message.f.eventType = Str("Complaint")
  /\ message.f.complaintFeedbackType = Str("abuse")
  /\ "bounceType" \notin DOMAIN message.f

(***************************************************************************)
(* Claims about the order and the cost of the appends                      *)
(***************************************************************************)
WritePositions == {"getSequenceToken", "putLogEvents", "retry"}

\* C15: the records are processed one after the other, in batch order: the
\* loop moves on by one record at a time and only when no writeToCloudWatch
\* call is open; a step sends at most one store operation, for the record
\* the loop is at; writeToCloudWatch is called only from the loop, with no
\* other call open; and calls and writes happen in batch order.
C15_RecordsInOrder ==
  /\ [][/\ idx' \in {idx, idx + 1}
        /\ idx' = idx + 1 => (pc' = "loop" /\ message' = Undefined)
        /\ calls' # calls =>
             \/ calls' = <<>>
             \/ /\ pc \in WritePositions
                /\ Len(calls') = Len(calls) + 1
                /\ SubSeq(calls', 1, Len(calls)) = calls
                /\ calls'[Len(calls')].rec = idx
                /\ idx' = idx => pc' \in WritePositions
        /\ appends' # appends =>
             /\ pc = "loop" /\ message = Undefined
             /\ appends' = Append(appends, [rec |-> idx, message |-> message'])]_vars
  /\ [](/\ \A c \in 1..Len(calls) :
             calls[c].rec = IF pc \in WritePositions THEN idx ELSE idx - 1
        /\ pc \in WritePositions <=> message # Undefined
        /\ \A i, j \in 1..Len(appends) : i < j => appends[i].rec < appends[j].rec
        /\ \A i, j \in 1..Len(stored) : i < j => stored[i].rec < stored[j].rec)

\* both records of a batch were written, the first before the second
C15_Witness ==
  /\ pc = "done"
  /\ Len(appends) = 2 /\ appends[1].rec = 1 /\ appends[2].rec = 2
  /\ Len(stored) = 2 /\ stored[1].rec = 1 /\ stored[2].rec = 2

\* C16: whatever the store answers, a writeToCloudWatch call sends one
\* DescribeLogStreams and one or two PutLogEvents, throws nothing, and
\* returns: with true or false, after exactly one lookup and at most two
\* submissions.
C16_AppendTerminates ==
  /\ [][(pc \in WritePositions) => (pc' # "raised" /\ result' = result)]_vars
  /\ [](\A r \in RecordIds :
          /\ Len(Lookups(r)) <= 1
          /\ Len(Puts(r)) <= 2
          /\ (pc \in {"putLogEvents", "retry"} /\ idx = r) => Len(Lookups(r)) = 1
          /\ HasReturned(r) => (Len(Lookups(r)) = 1 /\ Len(Puts(r)) \in {1, 2}))
  /\ \A r \in 1..MaxRecords :
       (pc \in WritePositions /\ idx = r) ~> (HasReturned(r) /\ pc = "loop")

\* an append has returned false after its lookup failed and both of its
\* submissions met a conflict
C16_Witness ==
  \E r \in RecordIds :
    /\ ReturnedValue(r, FALSE)
    /\ Len(Lookups(r)) = 1 /\ Lookups(r)[1].outcome # "ok"
    /\ Len(Puts(r)) = 2
    /\ Puts(r)[1].outcome = InvalidSequenceToken
    /\ Puts(r)[2].outcome = InvalidSequenceToken

(***************************************************************************)
(* Claims about concurrent invocations                                     *)
(***************************************************************************)
\* the entries of the stream that invocation p wrote
EntriesOf(p) == {k \in 1..Len(stored) : stored[k].rec = p}

RaceReturned(p) == race[p].pc = "returned"

\* C17: two invocations append to the same stream at the same time and the
\* store refuses nothing but stale tokens, naming the current one.  However
\* their lookups and submissions interleave, each call sends two submissions
\* at most and returns true, never false; both calls return in the end; and
\* then the stream holds each of the two records exactly once.
C17_BothRacersSucceed ==
  /\ [](\A p \in RaceProcs :
          /\ race[p].puts <= 2
          /\ RaceReturned(p) => (race[p].value /\ Cardinality(EntriesOf(p)) = 1)
          /\ ~RaceReturned(p) => EntriesOf(p) = {})
  /\ []((\A p \in RaceProcs : RaceReturned(p)) => Len(stored) = 2)
  /\ <>[](\A p \in RaceProcs : RaceReturned(p) /\ race[p].value)

\* both lookups saw the same token; invocation 2 wrote first, invocation 1
\* was refused, retried with the token it was told and wrote second
C17_Witness ==
  /\ \A p \in RaceProcs : RaceReturned(p) /\ race[p].value
  /\ race[1].puts = 2
  /\ race[2].puts = 1
  /\ race[1].sequenceToken = race[2].sequenceToken
  /\ race[1].error.name = InvalidSequenceToken
  /\ Len(stored) = 2 /\ stored[1].rec = 2 /\ stored[2].rec = 1

\* C18: with a store whose PutLogEvents either appends the entry and
\* succeeds or appends nothing and fails, for any number of invocations and
\* however they interleave: a call that returned true has written exactly
\* one entry for its record, a call that returned false has written none,
\* and no call has ever written two.
C18_TrueIffWrittenOnce ==
  \A p \in Invocations :
    /\ Cardinality(EntriesOf(p)) <= 1
    /\ (RaceReturned(p) /\ race[p].value) => Cardinality(EntriesOf(p)) = 1
    /\ (RaceReturned(p) /\ ~race[p].value) => EntriesOf(p) = {}
    /\ ~RaceReturned(p) => EntriesOf(p) = {}

\* one invocation wrote at its first submission; another was refused, was
\* refused again at its retry, returned false and left nothing in the stream
C18_Witness ==
  \E p, q \in Invocations :
    /\ RaceReturned(p) /\ race[p].value /\ race[p].puts = 1
    /\ Cardinality(EntriesOf(p)) = 1
    /\ RaceReturned(q) /\ ~race[q].value /\ race[q].puts = 2
    /\ EntriesOf(q) = {}

====
